---- MODULE Spec2Model ----
(***************************************************************************)
(* Blockwise relabelling of connected components                           *)
(* (funlib/segment/arrays/relabel_connected_components.py).                *)
(*                                                                         *)
(* Voxels are numbered in C order (last axis fastest); the voxel size is   *)
(* one world unit.  Arrays are functions over the voxels of the volume; a  *)
(* read outside the volume yields the fill value 0.                        *)
(***************************************************************************)
EXTENDS Integers, Sequences, FiniteSets, TLC

\* ------------------------------------------------------------------------
\* Geometry: the volume, the blocks and their regions
\* ------------------------------------------------------------------------

\* array_in.roi, in voxels (a multiple of block_size on every axis)
shape == <<6, 3, 3>>

\* block_size, in voxels
block_size == <<3, 3, 3>>

\* the axes the code walks: range(3), and the three slices of [1:-1, 1:-1, 1:-1]
Dims == 1..3

\* bounds of the model
MaxWorkers == 2
MaxRetries == 1
MaxForeground == 3
MaxMergeEdges == 3

\* the nonzero values of the input volumes
Values == 1..2

Voxels == 0..(shape[1] * shape[2] * shape[3] - 1)

Coord(i) == << i \div (shape[2] * shape[3]), (i \div shape[3]) % shape[2], i % shape[3] >>

Index(c) == (c[1] * shape[2] + c[2]) * shape[3] + c[3]

\* number of blocks per axis in the partition of the volume
grid == [d \in Dims |-> shape[d] \div block_size[d]]

Blocks == 0..(grid[1] * grid[2] * grid[3] - 1)

BlockCoord(b) == << b \div (grid[2] * grid[3]), (b \div grid[3]) % grid[2], b % grid[3] >>

\* block.block_id: the position of the block in the partition order
block_id(b) == b

write_begin(b) == [d \in Dims |-> BlockCoord(b)[d] * block_size[d]]

\* block.write_roi, as the set of its voxels
write_roi ==
  [b \in Blocks |->
     {i \in Voxels : \A d \in Dims :
        /\ write_begin(b)[d] <= Coord(i)[d]
        /\ Coord(i)[d] < write_begin(b)[d] + block_size[d]}]

\* block.read_roi = write_roi.grow(voxel_size, voxel_size), the part inside the volume
read_roi ==
  [b \in Blocks |->
     {i \in Voxels : \A d \in Dims :
        /\ write_begin(b)[d] - 1 <= Coord(i)[d]
        /\ Coord(i)[d] <= write_begin(b)[d] + block_size[d]}]

\* mutant: the size of write_roi is taken instead of that of read_roi
num_voxels_in_write_roi == block_size[1] * block_size[2] * block_size[3]

\* num_voxels_in_block = (read_roi / voxel_size).size(), of the nominal read_roi
num_voxels_in_block == (block_size[1] + 2) * (block_size[2] + 2) * (block_size[3] + 2)

Sides == {"neg", "pos"}

\* mutant: slice(None) on every axis, the whole array instead of one outer slice
slices_whole == [b \in Blocks |-> [d \in Dims |-> [s \in Sides |-> read_roi[b]]]]

\* the voxels of the volume on the slice slice(0, 1) ("neg") or slice(-1, None)
\* ("pos") of axis d of an array read over block.read_roi
slices ==
  [b \in Blocks |-> [d \in Dims |-> [s \in Sides |->
     {i \in read_roi[b] :
        Coord(i)[d] = IF s = "neg" THEN write_begin(b)[d] - 1
                                   ELSE write_begin(b)[d] + block_size[d]}]]]

\* number of positions of such a slice (those outside the volume hold the fill value)
slice_size(d) == num_voxels_in_block \div (block_size[d] + 2)

Abs(n) == IF n < 0 THEN 0 - n ELSE n

\* face adjacency (connectivity=1): the voxels one unit away along exactly one axis
Adj ==
  [i \in Voxels |->
     {j \in Voxels :
        Abs(Coord(i)[1] - Coord(j)[1]) + Abs(Coord(i)[2] - Coord(j)[2])
          + Abs(Coord(i)[3] - Coord(j)[3]) = 1}]

Min(S) == CHOOSE m \in S : \A n \in S : m <= n

\* ------------------------------------------------------------------------
\* skimage.measure.label(labels, connectivity=1)
\* ------------------------------------------------------------------------

RECURSIVE Grow(_, _, _, _, _)
\* the voxels of R joined to the voxels S by face-adjacent voxels of value v;
\* F holds the voxels of S whose neighbours have not been visited yet
Grow(labels, R, v, S, F) ==
  LET N == {y \in ((UNION {Adj[x] : x \in F}) \cap R) \ S : labels[y] = v}
  IN  IF N = {} THEN S ELSE Grow(labels, R, v, S \cup N, N)

RECURSIVE Regions(_, _, _)
\* the regions of equal nonzero value among the voxels todo, in the order in
\* which a raster scan meets their first voxel
Regions(labels, R, todo) ==
  IF todo = {} THEN << >>
  ELSE LET m == Min(todo)
           region == Grow(labels, R, labels[m], {m}, {m})
       IN  << region >> \o Regions(labels, R, todo \ region)

\* regions of equal nonzero value get the labels 1, 2, ... in the order in which
\* a raster scan of the array meets them; 0 stays 0
skimage_label(labels, R) ==
  LET regions == Regions(labels, R, {x \in R : labels[x] # 0})
  IN  [x \in R |->
         IF labels[x] = 0 THEN 0
         ELSE CHOOSE i \in 1..Len(regions) : x \in regions[i]]

\* ------------------------------------------------------------------------
\* find_components_in_block
\* ------------------------------------------------------------------------

\* line 103: the amount added to the local labels of a block
bump(b) == block_id(b) * num_voxels_in_block

\* mutant: the labels are not bumped by the block's offset
local_components_unbumped(in, b) ==
  LET labels == [x \in read_roi[b] |-> in[x]]
  IN  skimage_label(labels, read_roi[b])

\* mutant: the background is not reset after the bump (line 104 missing)
local_components_no_reset(in, b) ==
  LET labels == [x \in read_roi[b] |-> in[x]]
      comps == skimage_label(labels, read_roi[b])
  IN  [x \in read_roi[b] |-> comps[x] + bump(b)]

\* lines 95-104: label the input over the read region, bump the labels, reset
\* the background to 0
local_components(in, b) ==
  LET labels == [x \in read_roi[b] |-> in[x]]
      comps == skimage_label(labels, read_roi[b])
  IN  [x \in read_roi[b] |->
         IF labels[x] = 0 THEN 0 ELSE comps[x] + bump(b)]

\* mutant: the halo is not stripped, the labels are written over the read region
commit_uncropped(out, comps, b) ==
  [x \in Voxels |-> IF x \in read_roi[b] THEN comps[x] ELSE out[x]]

\* line 112: array_out[block.write_roi] = components[1:-1, 1:-1, 1:-1]
commit(out, comps, b) ==
  [x \in Voxels |-> IF x \in write_roi[b] THEN comps[x] ELSE out[x]]

\* mutant: the read does not see what other blocks have written
to_ndarray_stale(out, b) ==
  [x \in read_roi[b] |-> IF x \in write_roi[b] THEN out[x] ELSE 0]

\* line 113: neighbors = array_out.to_ndarray(roi=block.read_roi, fill_value=0)
to_ndarray(out, b) == [x \in read_roi[b] |-> out[x]]

PairLess(p, q) == p[1] < q[1] \/ (p[1] = q[1] /\ p[2] < q[2])

RECURSIVE SortPairs(_)
\* np.unique(..., axis=0): the distinct rows, in lexicographic order
SortPairs(S) ==
  IF S = {} THEN << >>
  ELSE LET m == CHOOSE p \in S : \A q \in S : p = q \/ PairLess(p, q)
       IN  << m >> \o SortPairs(S \ {m})

RECURSIVE SortInts(_)
\* np.unique of a flat array: the distinct values, ascending
SortInts(S) ==
  IF S = {} THEN << >> ELSE << Min(S) >> \o SortInts(S \ {Min(S)})

\* lines 130-138: the rows (components[x], neighbors[x]) of one slice; a position
\* of the slice outside the volume reads as the fill value in both arrays
slice_pairs(comps, neigh, b, d, s) ==
  {<< comps[x], neigh[x] >> : x \in slices[b][d][s]}
    \cup (IF Cardinality(slices[b][d][s]) < slice_size(d) THEN {<< 0, 0 >>} ELSE {})

\* mutant: only the slice slice(0, 1) of each axis is paired
axis_pairs_neg_only(comps, neigh, b, d) ==
  SortPairs(slice_pairs(comps, neigh, b, d, "neg"))

\* lines 140-143: the unique rows of the two slices of axis d
axis_pairs(comps, neigh, b, d) ==
  SortPairs(slice_pairs(comps, neigh, b, d, "neg") \cup slice_pairs(comps, neigh, b, d, "pos"))

\* lines 117-145: the concatenation over the three axes
unique_pairs(comps, neigh, b) ==
  axis_pairs(comps, neigh, b, 1) \o axis_pairs(comps, neigh, b, 2)
    \o axis_pairs(comps, neigh, b, 3)

\* mutant: only the block's own label is tested for 0
non_zero_filter_u_only(p) == ~(p[1] = 0)

\* lines 146-148: a row passes when neither of its two values is 0
non_zero_filter(p) == ~(p[1] = 0 \/ p[2] = 0)

\* lines 146-152: edges = unique_pairs[non_zero_filter]
block_edges(comps, neigh, b) == SelectSeq(unique_pairs(comps, neigh, b), non_zero_filter)

Range(s) == {s[i] : i \in 1..Len(s)}

\* line 153: nodes = np.unique(edges)
block_nodes(edges) == SortInts({e[1] : e \in Range(edges)} \cup {e[2] : e \in Range(edges)})

RECURSIVE Decimal(_)
\* '%d' of a non-negative integer: its decimal digits
Decimal(n) == IF n < 10 THEN << n >> ELSE Decimal(n \div 10) \o << n % 10 >>

\* line 159: 'block_%d.npz' % block.block_id
file_name(b) == << "block_" >> \o Decimal(block_id(b)) \o << ".npz" >>

\* mutant: the entry is added to the directory without replacing an earlier one
savez_append(dir, name, nodes, edges) ==
  dir \cup {[name |-> name, nodes |-> nodes, edges |-> edges]}

\* lines 158-161: np.savez_compressed writes the file, replacing one of that name
savez(dir, name, nodes, edges) ==
  {f \in dir : f.name # name} \cup {[name |-> name, nodes |-> nodes, edges |-> edges]}

\* ------------------------------------------------------------------------
\* read_cross_block_merges, find_components, relabel_in_block
\* ------------------------------------------------------------------------

RECURSIVE Concat(_, _)
\* np.concatenate of field fld of the files, taken in the order glob lists them
Concat(files, fld) ==
  IF files = << >> THEN << >> ELSE Head(files)[fld] \o Concat(Tail(files), fld)

\* mutant: the edges of the first file only
read_cross_block_merges_first(files) ==
  [nodes |-> Concat(files, "nodes"),
   edges |-> IF files = << >> THEN << >> ELSE Head(files).edges]

\* mutant: the last file listed is not read
read_cross_block_merges_skip_last(files) ==
  LET firsts == SubSeq(files, 1, Len(files) - 1)
  IN  [nodes |-> Concat(firsts, "nodes"), edges |-> Concat(firsts, "edges")]

\* lines 171-182: the nodes and the edges of all block files
read_cross_block_merges(files) ==
  [nodes |-> Concat(files, "nodes"), edges |-> Concat(files, "edges")]

\* the orders in which glob.glob may list the files of the directory
GlobOrders(dir) ==
  {o \in [1..Cardinality(dir) -> dir] : \A i, j \in 1..Cardinality(dir) : i # j => o[i] # o[j]}

RECURSIVE Find(_, _)
\* the root of n in the forest parent
Find(parent, n) == IF parent[n] = n THEN n ELSE Find(parent, parent[n])

\* join the trees of u and v; the smaller root becomes the root
Union(parent, u, v) ==
  LET ru == Find(parent, u)
      rv == Find(parent, v)
  IN  IF ru = rv THEN parent
      ELSE IF ru < rv THEN [parent EXCEPT ![rv] = ru]
      ELSE [parent EXCEPT ![ru] = rv]

RECURSIVE UnionAll(_, _)
UnionAll(parent, edges) ==
  IF edges = << >> THEN parent
  ELSE UnionAll(Union(parent, Head(edges)[1], Head(edges)[2]), Tail(edges))

\* find_components(nodes, edges): for each entry of nodes, the representative of
\* its connected component in the graph of the edges
find_components(nodes, edges) ==
  LET all == Range(nodes) \cup {e[1] : e \in Range(edges)} \cup {e[2] : e \in Range(edges)}
      forest == UnionAll([n \in all |-> n], edges)
  IN  [i \in 1..Len(nodes) |-> Find(forest, nodes[i])]

\* mutant: the two lists are paired one position apart
value_pairs_shifted(old_values, new_values) ==
  {<< old_values[i], new_values[(i % Len(old_values)) + 1] >> : i \in 1..Len(old_values)}

\* the (old value, new value) pairs that relabel_in_block hands to replace_values
value_pairs(old_values, new_values) ==
  {<< old_values[i], new_values[i] >> : i \in 1..Len(old_values)}

\* replace_values(a, old_values, new_values): an element equal to an old value
\* becomes the new value listed with it, any other element is kept
replace_values(a, pairs) ==
  [x \in DOMAIN a |->
     IF \E p \in pairs : p[1] = a[x]
     THEN (CHOOSE p \in pairs : p[1] = a[x])[2]
     ELSE a[x]]

\* line 166: a = array.to_ndarray(block.write_roi)
write_ndarray(out, b) == [x \in write_roi[b] |-> out[x]]

\* mutant: the write covers the whole array, 0 outside the block's write region
write_back_whole(out, a, b) ==
  [x \in Voxels |-> IF x \in write_roi[b] THEN a[x] ELSE 0]

\* line 168: array[block.write_roi] = a
write_back(out, a, b) ==
  [x \in Voxels |-> IF x \in write_roi[b] THEN a[x] ELSE out[x]]

\* ------------------------------------------------------------------------
\* State
\* ------------------------------------------------------------------------

VARIABLES
  array_in,     \* the input volume
  num_workers,  \* the number of workers of both run_blockwise calls
  array_out,    \* the destination volume
  phase,        \* where relabel_connected_components is
  bpc,          \* where each block's process function is
  components,   \* find_components_in_block: the local array components of each block
  tmpdir,       \* the files of the temporary directory
  mapping,      \* (nodes, components) of lines 59-61, as pairs (old value, new value)
  a,            \* relabel_in_block: the local array a of each block
  retries       \* number of re-executions of find_components_in_block so far

vars == << array_in, num_workers, array_out, phase, bpc, components, tmpdir, mapping,
           a, retries >>

\* no local array: the process function is not running
NoArray == << >>

Zeros == [x \in Voxels |-> 0]

\* the boundary between block 0 and block 1 lies between x = Bx - 1 and x = Bx
Bx == block_size[1]

\* voxels on both sides of that boundary, in the middle z-layer: the centre
\* of block 0 and of block 1 and two rows across the boundary
Candidates ==
  {Index(<< Bx - 2, 1, 1 >>), Index(<< Bx - 1, 1, 1 >>), Index(<< Bx, 1, 1 >>),
   Index(<< Bx + 1, 1, 1 >>), Index(<< Bx - 1, 2, 1 >>), Index(<< Bx, 2, 1 >>)}

\* at most MaxForeground of the candidate voxels are foreground
SparseInputs ==
  {[x \in Voxels |-> IF x \in Candidates THEN f[x] ELSE 0] :
     f \in {g \in [Candidates -> {0} \cup Values] :
              Cardinality({c \in Candidates : g[c] # 0}) <= MaxForeground}}

\* a volume that is v on the voxels S and 0 elsewhere
Blob(S, v) == [x \in Voxels |-> IF x \in S THEN v ELSE 0]

\* a U whose two arms lie in block 0 and whose bend lies beyond the read region
\* of block 0, so that block 0 sees the arms as two components
UShape ==
  Blob({Index(<< Bx - 1, 0, 1 >>), Index(<< Bx, 0, 1 >>), Index(<< Bx + 1, 0, 1 >>),
        Index(<< Bx + 1, 1, 1 >>), Index(<< Bx + 1, 2, 1 >>), Index(<< Bx, 2, 1 >>),
        Index(<< Bx - 1, 2, 1 >>)}, 1)

\* the mirror image: the arms in block 1, the bend in block 0
UShapeMirrored ==
  Blob({Index(<< Bx, 0, 1 >>), Index(<< Bx - 1, 0, 1 >>), Index(<< Bx - 2, 0, 1 >>),
        Index(<< Bx - 2, 1, 1 >>), Index(<< Bx - 2, 2, 1 >>), Index(<< Bx - 1, 2, 1 >>),
        Index(<< Bx, 2, 1 >>)}, 1)

\* every voxel is foreground and differs from its face neighbours: each voxel
\* is a component of its own
Checkerboard ==
  [x \in Voxels |-> 1 + ((Coord(x)[1] + Coord(x)[2] + Coord(x)[3]) % 2)]

\* every voxel is foreground with the same value: one component
Solid == [x \in Voxels |-> 1]

Inputs == SparseInputs \cup {UShape, UShapeMirrored, Checkerboard, Solid}

\* the process functions that hold a worker
Running == {b \in Blocks : bpc[b] \in {"committed", "reading"}}

Init ==
  /\ array_in \in Inputs
  /\ num_workers \in 1..MaxWorkers
  /\ array_out = Zeros
  /\ phase = "phase1"
  /\ bpc = [b \in Blocks |-> "idle"]
  /\ components = [b \in Blocks |-> NoArray]
  /\ tmpdir = {}
  /\ mapping = {}
  /\ a = [b \in Blocks |-> NoArray]
  /\ retries = 0

\* find_components_in_block, lines 95-112: label the block and write its labels
Commit(b) ==
  /\ phase = "phase1"
  /\ bpc[b] = "idle"
  /\ Cardinality(Running) < num_workers
  /\ LET comps == local_components(array_in, b)
     IN  /\ components' = [components EXCEPT ![b] = comps]
         /\ array_out' = commit(array_out, comps, b)
  /\ bpc' = [bpc EXCEPT ![b] = "committed"]
  /\ UNCHANGED << array_in, num_workers, phase, tmpdir, mapping, a, retries >>

\* find_components_in_block, lines 113-161: read the destination over the read
\* region, pair the outer slices, save the nodes and edges
ReRead(b) ==
  /\ phase = "phase1"
  /\ bpc[b] = "committed"
  /\ LET neighbors == to_ndarray(array_out, b)
         edges == block_edges(components[b], neighbors, b)
         nodes == block_nodes(edges)
     IN  tmpdir' = savez(tmpdir, file_name(b), nodes, edges)
  /\ bpc' = [bpc EXCEPT ![b] = "saved"]
  /\ components' = [components EXCEPT ![b] = NoArray]
  /\ UNCHANGED << array_in, num_workers, array_out, phase, mapping, a, retries >>

\* mutant: the write region of the block is reset to 0 before the block is
\* executed again
Retry_clearing(b) ==
  /\ phase = "phase1"
  /\ bpc[b] \in {"committed", "saved"}
  /\ retries < MaxRetries
  /\ retries' = retries + 1
  /\ bpc' = [bpc EXCEPT ![b] = "idle"]
  /\ components' = [components EXCEPT ![b] = NoArray]
  /\ array_out' = [x \in Voxels |-> IF x \in write_roi[b] THEN 0 ELSE array_out[x]]
  /\ UNCHANGED << array_in, num_workers, phase, tmpdir, mapping, a >>

\* run_blockwise executes the process function of a block again
Retry(b) ==
  /\ phase = "phase1"
  /\ bpc[b] \in {"committed", "saved"}
  /\ retries < MaxRetries
  /\ retries' = retries + 1
  /\ bpc' = [bpc EXCEPT ![b] = "idle"]
  /\ components' = [components EXCEPT ![b] = NoArray]
  /\ UNCHANGED << array_in, num_workers, array_out, phase, tmpdir, mapping, a >>

\* lines 46-61: the first run_blockwise returns once every block has been
\* processed or has failed for good (its result is not looked at), the block
\* files are read in the order glob lists them, the directory is removed, the
\* components are found
Merge ==
  /\ phase = "phase1"
  /\ \A b \in Blocks : bpc[b] \in {"saved", "failed"}
  /\ tmpdir # {}
  /\ \E files \in GlobOrders(tmpdir) :
       LET m == read_cross_block_merges(files)
       IN  mapping' = value_pairs(m.nodes, find_components(m.nodes, m.edges))
  /\ tmpdir' = {}
  /\ phase' = "phase3"
  /\ bpc' = [b \in Blocks |-> "pending"]
  /\ UNCHANGED << array_in, num_workers, array_out, components, a, retries >>

\* relabel_in_block, lines 166-167: read the write region and replace the values
RelabelRead(b) ==
  /\ phase = "phase3"
  /\ bpc[b] = "pending"
  /\ Cardinality(Running) < num_workers
  /\ a' = [a EXCEPT ![b] = replace_values(write_ndarray(array_out, b), mapping)]
  /\ bpc' = [bpc EXCEPT ![b] = "reading"]
  /\ UNCHANGED << array_in, num_workers, array_out, phase, components, tmpdir, mapping,
                  retries >>

\* relabel_in_block, line 168: write the array back
RelabelWrite(b) ==
  /\ phase = "phase3"
  /\ bpc[b] = "reading"
  /\ array_out' = write_back(array_out, a[b], b)
  /\ a' = [a EXCEPT ![b] = NoArray]
  /\ bpc' = [bpc EXCEPT ![b] = "relabeled"]
  /\ UNCHANGED << array_in, num_workers, phase, components, tmpdir, mapping, retries >>

\* line 83: the second run_blockwise returns
Finish ==
  /\ phase = "phase3"
  /\ \A b \in Blocks : bpc[b] = "relabeled"
  /\ phase' = "done"
  /\ UNCHANGED << array_in, num_workers, array_out, bpc, components, tmpdir, mapping, a,
                  retries >>

\* the process function of a block raises, before or after line 112, and
\* run_blockwise gives the block up
Fail(b) ==
  /\ phase = "phase1"
  /\ bpc[b] \in {"idle", "committed"}
  /\ bpc' = [bpc EXCEPT ![b] = "failed"]
  /\ components' = [components EXCEPT ![b] = NoArray]
  /\ UNCHANGED << array_in, num_workers, array_out, phase, tmpdir, mapping, a, retries >>

Next ==
  \/ \E b \in Blocks : Commit(b)
  \/ \E b \in Blocks : ReRead(b)
  \/ \E b \in Blocks : Retry(b)
  \/ Merge
  \/ \E b \in Blocks : RelabelRead(b)
  \/ \E b \in Blocks : RelabelWrite(b)
  \/ Finish

\* the runs in which every block is processed to the end
Spec == Init /\ [][Next]_vars

\* lines 59 and 182: with no block file at all np.concatenate is given an empty
\* list and raises ValueError, which ends relabel_connected_components
MergeRaises ==
  /\ phase = "phase1"
  /\ \A b \in Blocks : bpc[b] \in {"saved", "failed"}
  /\ tmpdir = {}
  /\ phase' = "error"
  /\ UNCHANGED << array_in, num_workers, array_out, bpc, components, tmpdir, mapping, a,
                  retries >>

\* the second run_blockwise executes relabel_in_block of a block again, after
\* its read or after its write
RelabelRetry(b) ==
  /\ phase = "phase3"
  /\ bpc[b] \in {"reading", "relabeled"}
  /\ retries < MaxRetries
  /\ retries' = retries + 1
  /\ bpc' = [bpc EXCEPT ![b] = "pending"]
  /\ a' = [a EXCEPT ![b] = NoArray]
  /\ UNCHANGED << array_in, num_workers, array_out, phase, components, tmpdir, mapping >>

NextRelabelRetry ==
  \/ Next
  \/ \E b \in Blocks : RelabelRetry(b)

\* the runs in which relabel_in_block may be executed again
SpecRelabelRetry == Init /\ [][NextRelabelRetry]_vars

NextFail ==
  \/ Next
  \/ \E b \in Blocks : Fail(b)
  \/ MergeRaises

\* the runs in which blocks may fail for good
SpecFail == Init /\ [][NextFail]_vars

\* ------------------------------------------------------------------------
\* Reference notions used by the properties
\* ------------------------------------------------------------------------

Foreground == {x \in Voxels : array_in[x] # 0}

\* the voxels joined to x by a face-adjacent path of voxels of x's input value
Blob_of(x) == Grow(array_in, Voxels, array_in[x], {x}, {x})

owners == [x \in Voxels |-> CHOOSE b \in Blocks : x \in write_roi[b]]

\* the block whose write region holds voxel x
Owner(x) == owners[x]

\* pairs of face-adjacent voxels of one blob that lie in two different write regions
Crossings ==
  {p \in Foreground \X Foreground :
     /\ p[2] \in Adj[p[1]]
     /\ array_in[p[1]] = array_in[p[2]]
     /\ Owner(p[1]) # Owner(p[2])}

\* the file of the temporary directory that block b wrote, if any
FilesOf(b) == {f \in tmpdir : f.name = file_name(b)}

\* ------------------------------------------------------------------------
\* Properties
\* ------------------------------------------------------------------------

\* C1: once both phases have run, two voxels joined by a face-adjacent path of
\* voxels of one nonzero input value hold the same output label, whatever the
\* order of the block steps
C1_ComponentCorrectness ==
  phase = "done" =>
    \A x \in Foreground : \A y \in Blob_of(x) : array_out[y] = array_out[x]

\* a finished run in which a blob crosses the block boundary and is uniformly labelled
C1_Witness ==
  /\ phase = "done"
  /\ \E p \in Crossings : array_out[p[1]] = array_out[p[2]] /\ array_out[p[1]] # 0

\* C2: once both phases have run, two foreground voxels that are not joined by
\* such a path hold different output labels
C2_Distinctness ==
  phase = "done" =>
    \A x, y \in Foreground : y \notin Blob_of(x) => array_out[y] # array_out[x]

\* a finished run with two blobs of one value in different blocks that touch only
\* diagonally, differently labelled
C2_Witness ==
  /\ phase = "done"
  /\ \E x, y \in Foreground :
       /\ Owner(x) # Owner(y)
       /\ array_in[x] = array_in[y]
       /\ y \notin Blob_of(x)
       /\ \E z \in Adj[x] : y \in Adj[z]
       /\ array_out[x] # array_out[y]

\* C3: from a block's write of line 112 on, and through its relabelling, a voxel
\* of the block holds 0 exactly when its input value is 0; an all-zero input gives
\* an all-zero destination and empty nodes and edges in every block file
C3_ZeroPreservation ==
  /\ \A b \in Blocks : bpc[b] # "idle" =>
       \A x \in write_roi[b] : (array_in[x] = 0) <=> (array_out[x] = 0)
  /\ Foreground = {} =>
       /\ array_out = Zeros
       /\ \A f \in tmpdir : f.nodes = << >> /\ f.edges = << >>

\* a finished run in which block 0 (offset 0) holds a relabelled foreground voxel
\* next to background voxels
C3_Witness ==
  /\ phase = "done"
  /\ mapping # {}
  /\ \E x \in write_roi[0] : array_in[x] # 0 /\ array_out[x] # 0
  /\ \E x \in write_roi[0] : array_in[x] = 0 /\ array_out[x] = 0

\* The run in which the blocks execute find_components_in_block one after the
\* other in the order of their ids, then relabel_in_block in the same order.
RECURSIVE SequentialPhase1(_, _)
SequentialPhase1(st, b) ==
  IF b \notin Blocks THEN st
  ELSE LET comps == local_components(array_in, b)
           out == commit(st.out, comps, b)
           edges == block_edges(comps, to_ndarray(out, b), b)
       IN  SequentialPhase1(
             [out |-> out, dir |-> savez(st.dir, file_name(b), block_nodes(edges), edges)],
             b + 1)

RECURSIVE SequentialPhase3(_, _, _)
SequentialPhase3(out, pairs, b) ==
  IF b \notin Blocks THEN out
  ELSE SequentialPhase3(
         write_back(out, replace_values(write_ndarray(out, b), pairs), b), pairs, b + 1)

SequentialOutput ==
  LET st == SequentialPhase1([out |-> Zeros, dir |-> {}], 0)
      m == read_cross_block_merges(CHOOSE o \in GlobOrders(st.dir) : TRUE)
  IN  SequentialPhase3(st.out, value_pairs(m.nodes, find_components(m.nodes, m.edges)), 0)

\* C4: the final destination array is the same for every order and interleaving
\* of the block steps and every number of workers: it is the array of the
\* sequential run
C4_Determinism ==
  phase = "done" => array_out = SequentialOutput

\* the nonzero labels that find_components_in_block gives in block b
ProducedBy(b) == {local_components(array_in, b)[x] : x \in read_roi[b]} \ {0}

\* the edges of the file that block b wrote, in directory dir
EdgesOf(dir, b) == UNION {Range(f.edges) : f \in {g \in dir : g.name = file_name(b)}}

\* a step that is lines 113-161 of block b
IsReRead(b) == bpc[b] = "committed" /\ bpc'[b] = "saved"

\* once both blocks of a crossing have finished, the edge between their labels of
\* the blob is in the file of one of them
C5_EdgeRecorded ==
  \A p \in Crossings :
    (phase = "phase1" /\ bpc[Owner(p[1])] = "saved" /\ bpc[Owner(p[2])] = "saved") =>
      \/ << array_out[p[1]], array_out[p[2]] >> \in EdgesOf(tmpdir, Owner(p[1]))
      \/ << array_out[p[2]], array_out[p[1]] >> \in EdgesOf(tmpdir, Owner(p[2]))

\* a block that re-reads after its neighbour's write records the edge; one that
\* re-reads before it records no edge to a label of the neighbour
C5_ReReadStep ==
  \A p \in Crossings :
    IsReRead(Owner(p[1])) =>
      IF array_out[p[2]] # 0
      THEN << array_out[p[1]], array_out[p[2]] >> \in EdgesOf(tmpdir', Owner(p[1]))
      ELSE \A e \in EdgesOf(tmpdir', Owner(p[1])) : e[2] \notin ProducedBy(Owner(p[2]))

\* C5: with the write (line 112) and the re-read (line 113) of two adjacent blocks
\* interleaved in any way and no lock, an adjacency of one blob across their
\* boundary is recorded by the block that re-reads after the other's write, and
\* not by a block that re-reads before it; so once both have finished at least
\* one file holds the edge
C5_AdjacencyCapture == [] C5_EdgeRecorded /\ [][C5_ReReadStep]_vars

\* both blocks have finished, a blob crosses the boundary, and only the block that
\* re-read last holds the edge
C5_Witness ==
  /\ phase = "phase1"
  /\ \A b \in Blocks : bpc[b] = "saved"
  /\ \E p \in Crossings :
       /\ << array_out[p[1]], array_out[p[2]] >> \in EdgesOf(tmpdir, Owner(p[1]))
       /\ EdgesOf(tmpdir, Owner(p[2])) = {}

\* C6: the nonzero labels of two different blocks never coincide (a fact of the
\* input alone, examined before any block has written), also when a block
\* produces as many labels as its read region has voxels; so before the
\* relabelling equal nonzero labels in the destination lie in one block's write
\* region, and every label in the block files was produced by exactly one block
C6_NamespaceDisjoint ==
  LET produced == UNION {{<< b, l >> : l \in ProducedBy(b)} : b \in Blocks}
      labelled == {x \in Voxels : array_out[x] # 0}
  IN  /\ (\A b \in Blocks : bpc[b] = "idle") =>
           \A q, r \in produced : q[2] = r[2] => q[1] = r[1]
      /\ \A b, c \in Blocks : b < c => bump(b) + num_voxels_in_block < bump(c) + 1
      /\ phase = "phase1" =>
           \A x, y \in labelled : array_out[x] = array_out[y] => Owner(x) = Owner(y)
      /\ \A b \in Blocks : \A e \in EdgesOf(tmpdir, b) :
           /\ << b, e[1] >> \in produced
           /\ \E c \in Blocks \ {b} : << c, e[2] >> \in produced

\* every voxel of the volume is a component of its own, both blocks have written
\* their labels and saved their edges
C6_Witness ==
  /\ array_in = Checkerboard
  /\ phase = "phase1"
  /\ \A b \in Blocks : bpc[b] = "saved" /\ EdgesOf(tmpdir, b) # {}
  /\ \A x \in Voxels : array_out[x] # 0

\* a step of relabel_in_block of some block
IsRelabelStep == \E b \in Blocks : bpc'[b] # bpc[b] /\ bpc'[b] \in {"reading", "relabeled"}

\* a step of find_components_in_block of some block
IsPhase1Step ==
  \/ components' # components
  \/ tmpdir' # tmpdir /\ tmpdir' # {}
  \/ \E b \in Blocks : bpc'[b] # bpc[b] /\ bpc'[b] \in {"idle", "committed", "saved", "failed"}

C7_Step ==
  /\ (phase = "phase1" /\ phase' # "phase1") =>
       \A b \in Blocks : bpc[b] = "saved" /\ \E f \in tmpdir : f.name = file_name(b)
  /\ mapping' # mapping => (phase = "phase1" /\ phase' = "phase3")
  /\ phase # "phase1" => phase' # "phase1"
  /\ IsRelabelStep => phase = "phase3"
  /\ phase # "phase1" => ~IsPhase1Step
  /\ phase # "phase1" => mapping' = mapping

\* C7: the block files are read only when every block has written its labels and
\* saved its file; the mapping is computed at that one step and never changed
\* afterwards; relabel steps happen only after it, and no step of
\* find_components_in_block happens after it
C7_PhaseOrdering == [][C7_Step]_vars

interiors ==
  [b \in Blocks |->
     {x \in write_roi[b] : \A d \in Dims :
        /\ write_begin(b)[d] < Coord(x)[d]
        /\ Coord(x)[d] < write_begin(b)[d] + block_size[d] - 1}]

\* the voxels of block b's write region that are not on its outermost layer
Interior(b) == interiors[b]

\* the foreground voxels whose blob lies in the interior of one write region
Isolated ==
  {x \in UNION {Interior(b) : b \in Blocks} :
     array_in[x] # 0 /\ Blob_of(x) \subseteq Interior(Owner(x))}

\* block_id x capacity + local label of voxel x in its own block
Provisional(x) ==
  skimage_label([y \in read_roi[Owner(x)] |-> array_in[y]], read_roi[Owner(x)])[x]
    + block_id(Owner(x)) * num_voxels_in_block

\* C8: the label of a blob that lies inside one write region and off its
\* outermost layer occurs in no block file and not in the mapping, and its
\* voxels hold the provisional label from the block's write on, also after the
\* relabelling
C8_IsolatedPassThrough ==
  \A x \in Isolated :
    LET l == Provisional(x)
    IN  /\ \A f \in tmpdir :
             /\ l \notin Range(f.nodes)
             /\ \A e \in Range(f.edges) : e[1] # l /\ e[2] # l
        /\ \A p \in mapping : p[1] # l
        /\ bpc[Owner(x)] # "idle" => array_out[x] = l
        /\ phase = "done" => array_out[x] = l

\* a finished run in which other labels were merged and an isolated blob of
\* block 0 kept its provisional label
C8_Witness ==
  /\ phase = "done"
  /\ \E p \in mapping : p[1] # p[2]
  /\ \E x \in Isolated : array_out[x] = Provisional(x) /\ array_out[x] # 0

\* the directory holds at most one file per block id
C9_OneFilePerBlock ==
  /\ \A f, g \in tmpdir : f.name = g.name => f = g
  /\ \A f \in tmpdir : \E b \in Blocks : f.name = file_name(b)

\* a finished execution of a block leaves exactly its nodes and edges under the
\* block's name and leaves the other files as they were; no other step of
\* find_components_in_block touches the directory
C9_Step ==
  \A b \in Blocks :
    /\ IsReRead(b) =>
         LET edges == block_edges(components[b], to_ndarray(array_out, b), b)
         IN  /\ {f \in tmpdir' : f.name = file_name(b)}
                  = {[name |-> file_name(b), nodes |-> block_nodes(edges), edges |-> edges]}
             /\ {f \in tmpdir' : f.name # file_name(b)}
                  = {f \in tmpdir : f.name # file_name(b)}
    /\ (bpc'[b] # bpc[b] /\ bpc'[b] \in {"idle", "committed"}) => tmpdir' = tmpdir

\* C9: the scratch store is keyed by block id and overwritten: at most one entry
\* per block, equal to the nodes and edges of the block's latest finished
\* execution, other entries untouched, nothing appended on a retry
C9_ScratchKeyed == [] C9_OneFilePerBlock /\ [][C9_Step]_vars

\* after a retry both blocks have an entry and one of them holds an edge
C9_Witness ==
  /\ phase = "phase1"
  /\ retries > 0
  /\ \A b \in Blocks : bpc[b] = "saved" /\ Cardinality({f \in tmpdir : f.name = file_name(b)}) = 1
  /\ \A b \in Blocks : EdgesOf(tmpdir, b) # {}

\* ------------------------------------------------------------------------
\* The merge on its own: block files with arbitrary edge lists
\* ------------------------------------------------------------------------

\* labels of two blocks
MergeLabels == {1, 2, bump(1) + 1, bump(1) + 2}

\* a label that occurs in no edge
LoneLabel == bump(1) + 3

MergePairs == {p \in MergeLabels \X MergeLabels : p[1] # p[2]}

\* edge lists of at most MaxMergeEdges edges, in any order, with repetitions
MergeEdgeLists == UNION {[1..n -> MergePairs] : n \in 0..MaxMergeEdges}

\* the directory in which the first k edges of an edge list are in the file of
\* block 0 and the others in the file of block 1, with the extra nodes in the latter
MergeDir(edges, k, extra) ==
  LET e0 == SubSeq(edges, 1, k)
      e1 == SubSeq(edges, k + 1, Len(edges))
  IN  {[name |-> file_name(0), nodes |-> block_nodes(e0), edges |-> e0],
       [name |-> file_name(1), nodes |-> block_nodes(e1) \o extra, edges |-> e1]}

InitMerge ==
  /\ array_in = Zeros
  /\ num_workers = 1
  /\ array_out = Zeros
  /\ phase = "phase1"
  /\ bpc = [b \in Blocks |-> "saved"]
  /\ components = [b \in Blocks |-> NoArray]
  /\ \E edges \in MergeEdgeLists : \E k \in 0..Len(edges) :
       \E extra \in {<< >>, << LoneLabel >>} : tmpdir = MergeDir(edges, k, extra)
  /\ mapping = {}
  /\ a = [b \in Blocks |-> NoArray]
  /\ retries = 0

NextMerge == Merge

SpecMerge == InitMerge /\ [][NextMerge]_vars

AllNodes(dir) == UNION {Range(f.nodes) : f \in dir}

AllEdges(dir) == UNION {Range(f.edges) : f \in dir}

RECURSIVE Reachable(_, _)
\* the labels joined to the labels S by the undirected edges E
Reachable(E, S) ==
  LET N == S \cup {e[2] : e \in {g \in E : g[1] \in S}}
               \cup {e[1] : e \in {g \in E : g[2] \in S}}
  IN  IF N = S THEN S ELSE Reachable(E, N)

\* every node with the least label of its connected component
MinMapping(dir) == {<< n, Min(Reachable(AllEdges(dir), {n})) >> : n \in AllNodes(dir)}

\* C10: in whatever order the files are listed and the edges are stored, and
\* however often they are repeated, the mapping sends every node to the least
\* label of its connected component in the graph of all edges, and a node
\* without an edge to itself
C10_MergeOrderIndependent ==
  [][(phase = "phase1" /\ phase' = "phase3") => mapping' = MinMapping(tmpdir)]_vars

\* a merge that joined three labels into one component and kept a lone node
C10_Witness ==
  /\ phase = "phase3"
  /\ \E p \in mapping : Cardinality({q \in mapping : q[2] = p[2]}) >= 3
  /\ << LoneLabel, LoneLabel >> \in mapping

\* ------------------------------------------------------------------------
\* The edges and nodes of one block
\* ------------------------------------------------------------------------

\* the voxels on the outermost slices of block b's read region, along any axis
Halo(b) == read_roi[b] \ write_roi[b]

\* the values occurring in a list of edges
ValuesOf(edges) == {e[1] : e \in Range(edges)} \cup {e[2] : e \in Range(edges)}

\* no file holds a 0, as node or in an edge; the nodes of a file are the values
\* of its edges, each listed once
C11_FilesWellFormed ==
  \A f \in tmpdir :
    /\ 0 \notin Range(f.nodes)
    /\ \A e \in Range(f.edges) : e[1] # 0 /\ e[2] # 0
    /\ Range(f.nodes) = ValuesOf(f.edges)
    /\ Len(f.nodes) = Cardinality(Range(f.nodes))

\* the edges that the re-read of block b saves are the pairs (own label of x,
\* destination value at x) over the halo voxels x, without those holding a 0
C11_Step ==
  \A b \in Blocks :
    IsReRead(b) =>
      EdgesOf(tmpdir', b) =
        {p \in {<< components[b][x], array_out[x] >> : x \in Halo(b)} : p[1] # 0 /\ p[2] # 0}

\* C11: the set of edges a block saves is the set of pairs (u, v), u # 0 and
\* v # 0, of the block's own label u and the destination's value v at one voxel
\* of the outermost slices of its read region, read at the block's re-read; no
\* saved edge or node is 0 and the nodes are the values occurring in the edges
C11_EdgeSet == [] C11_FilesWellFormed /\ [][C11_Step]_vars

\* a block has saved several edges while one of its halo voxels, foreground in
\* the input, still held 0 in the destination or was paired with background
C11_Witness ==
  /\ phase = "phase1"
  /\ \E b \in Blocks :
       /\ bpc[b] = "saved"
       /\ Cardinality(EdgesOf(tmpdir, b)) >= 2
       /\ \E f \in FilesOf(b) : Len(f.nodes) >= 4
       /\ \E x \in Halo(b) : array_in[x] = 0

\* ------------------------------------------------------------------------
\* The label namespace on its own: lines 95-104 over a second partition, a
\* cube of side 3 cut into blocks of one voxel, so that the read region of
\* the centre block lies inside the volume
\* ------------------------------------------------------------------------

\* array_in.roi and block_size of this partition, in voxels
unit_shape == <<3, 3, 3>>

unit_block_size == <<1, 1, 1>>

\* bound: the number of background voxels in the inputs of this partition
MaxHoles == 1

\* the voxels of the volume
Cube == {i \in Voxels : \A d \in Dims : Coord(i)[d] < unit_shape[d]}

unit_grid == [d \in Dims |-> unit_shape[d] \div unit_block_size[d]]

UnitBlocks == 0..(unit_grid[1] * unit_grid[2] * unit_grid[3] - 1)

unit_begin(u) ==
  << (u \div (unit_grid[2] * unit_grid[3])) * unit_block_size[1],
     ((u \div unit_grid[3]) % unit_grid[2]) * unit_block_size[2],
     (u % unit_grid[3]) * unit_block_size[3] >>

\* block.read_roi, the part inside the volume
unit_read_roi ==
  [u \in UnitBlocks |->
     {i \in Cube : \A d \in Dims :
        /\ unit_begin(u)[d] - 1 <= Coord(i)[d]
        /\ Coord(i)[d] <= unit_begin(u)[d] + unit_block_size[d]}]

\* mutant: the size of write_roi is taken instead of that of read_roi
unit_capacity_write == unit_block_size[1] * unit_block_size[2] * unit_block_size[3]

\* num_voxels_in_block of this partition (line 42)
unit_capacity ==
  (unit_block_size[1] + 2) * (unit_block_size[2] + 2) * (unit_block_size[3] + 2)

\* the number of bits of labels.dtype: 8-bit labels
dtype_bits == 8

\* arithmetic in labels.dtype
astype(n) == n % (2 ^ dtype_bits)

\* lines 95-98: the local labels of block u, in labels.dtype
unit_label(in, u) ==
  LET labels == [x \in unit_read_roi[u] |-> in[x]]
      comps == skimage_label(labels, unit_read_roi[u])
  IN  [x \in unit_read_roi[u] |-> astype(comps[x])]

\* lines 103-104: the in-place addition of block_id * num_voxels_in_block, in
\* labels.dtype, and the reset of the background
unit_bump(in, comps, u) ==
  [x \in unit_read_roi[u] |->
     IF in[x] = 0 THEN 0 ELSE astype(comps[x] + block_id(u) * unit_capacity)]

\* every voxel foreground and a component of its own, but for the voxels H
Holed(H) ==
  [x \in Cube |-> IF x \in H THEN 0 ELSE 1 + ((Coord(x)[1] + Coord(x)[2] + Coord(x)[3]) % 2)]

RECURSIVE HoleSets(_)
\* the sets of at most n voxels
HoleSets(n) ==
  IF n = 0 THEN {{}}
  ELSE LET P == HoleSets(n - 1) IN P \cup {G \cup {x} : G \in P, x \in Cube}

UnitInputs ==
  {Holed(H) : H \in HoleSets(MaxHoles)}
    \cup {[x \in Cube |-> 1], [x \in Cube |-> 0]}

InitNamespace ==
  /\ array_in \in UnitInputs
  /\ num_workers = 1
  /\ array_out = [x \in Cube |-> 0]
  /\ phase = "phase1"
  /\ bpc = [u \in UnitBlocks |-> "idle"]
  /\ components = [u \in UnitBlocks |-> NoArray]
  /\ tmpdir = {}
  /\ mapping = {}
  /\ a = [u \in UnitBlocks |-> NoArray]
  /\ retries = 0

\* lines 95-98 of the next block, the blocks taken in the order of their ids
Label(u) ==
  /\ bpc[u] = "idle"
  /\ \A v \in UnitBlocks : v < u => bpc[v] = "bumped"
  /\ components' = [components EXCEPT ![u] = unit_label(array_in, u)]
  /\ bpc' = [bpc EXCEPT ![u] = "labelled"]
  /\ UNCHANGED << array_in, num_workers, array_out, phase, tmpdir, mapping, a, retries >>

\* lines 103-104 of that block
Bump(u) ==
  /\ bpc[u] = "labelled"
  /\ components' = [components EXCEPT ![u] = unit_bump(array_in, components[u], u)]
  /\ bpc' = [bpc EXCEPT ![u] = "bumped"]
  /\ UNCHANGED << array_in, num_workers, array_out, phase, tmpdir, mapping, a, retries >>

NextNamespace ==
  \/ \E u \in UnitBlocks : Label(u)
  \/ \E u \in UnitBlocks : Bump(u)

SpecNamespace == InitNamespace /\ [][NextNamespace]_vars

\* the local labels of block u lie in 1..top, and after lines 103-104 a
\* background voxel holds 0
LocalRange(top) ==
  \A u \in UnitBlocks :
    /\ bpc[u] = "labelled" =>
         \A x \in unit_read_roi[u] :
           /\ array_in[x] = 0 => components[u][x] = 0
           /\ array_in[x] # 0 => components[u][x] \in 1..top
    /\ bpc[u] = "bumped" =>
         \A x \in unit_read_roi[u] : array_in[x] = 0 => components[u][x] = 0

\* C12 as stated: every nonzero local label lies in 1..capacity-1 and local
\* label 0 maps to global label 0
C12_LocalRangeBelowCapacity == LocalRange(unit_capacity - 1)

\* C12, amended: every nonzero local label lies in 1..capacity, the capacity
\* being reached when every voxel of a read region inside the volume is a
\* component of its own, and local label 0 maps to global label 0
C12_LocalRangeUpToCapacity == LocalRange(unit_capacity)

\* the centre block has labelled a read region of which every voxel is a
\* component of its own, and another block has bumped its labels
C12_Witness ==
  /\ \E u \in UnitBlocks :
       /\ bpc[u] = "labelled"
       /\ unit_read_roi[u] = Cube
       /\ \E x \in Cube : components[u][x] = unit_capacity
  /\ \E u \in UnitBlocks : u > 0 /\ bpc[u] = "bumped"

\* ------------------------------------------------------------------------
\* Phase 3
\* ------------------------------------------------------------------------

\* the value that the mapping gives for label l
Mapped(l) == IF \E p \in mapping : p[1] = l THEN (CHOOSE p \in mapping : p[1] = l)[2] ELSE l

\* a step of relabel_in_block of block b leaves the other blocks' state alone
OthersUnchanged(b) ==
  /\ mapping' = mapping
  /\ \A c \in Blocks \ {b} : bpc'[c] = bpc[c] /\ a'[c] = a[c]
  /\ tmpdir' = tmpdir /\ array_in' = array_in

\* the read of lines 166-167 changes no voxel; the write of line 168 changes
\* the voxels of the block's write region only, to the mapped values
C13_Step ==
  \A b \in Blocks :
    /\ (bpc[b] = "pending" /\ bpc'[b] = "reading") =>
         array_out' = array_out /\ OthersUnchanged(b)
    /\ (bpc[b] = "reading" /\ bpc'[b] = "relabeled") =>
         /\ \A x \in Voxels \ write_roi[b] : array_out'[x] = array_out[x]
         /\ \A x \in write_roi[b] : array_out'[x] = Mapped(array_out[x])
         /\ OthersUnchanged(b)

\* in phase 3 a voxel of a relabelled block holds the mapped value of its
\* provisional label and a voxel of another block its provisional label, in
\* whatever order the blocks have read and written
C13_Final ==
  phase \in {"phase3", "done"} =>
    LET prov == [b \in Blocks |-> local_components(array_in, b)]
    IN  \A x \in Voxels :
          array_out[x] = IF bpc[Owner(x)] = "relabeled"
                         THEN Mapped(prov[Owner(x)][x]) ELSE prov[Owner(x)][x]

\* C13: a relabel step of block b changes voxels of b's write region only and
\* leaves the mapping and the other blocks' state unchanged; the final array is
\* the same for every order and interleaving of the blocks' reads and writes
C13_Phase3Local == [] C13_Final /\ [][C13_Step]_vars

\* block 1 has written its relabelled voxels while block 0 holds its array
\* read before that write, and block 1's voxels changed
C13_Witness ==
  /\ phase = "phase3"
  /\ bpc[0] = "reading" /\ bpc[1] = "relabeled"
  /\ \E x \in write_roi[1] : array_out[x] # local_components(array_in, 1)[x]
  /\ \E x \in write_roi[0] : array_out[x] # 0

\* ------------------------------------------------------------------------
\* A block that fails for good
\* ------------------------------------------------------------------------

\* the blocks that have failed and left no file
Missing == {b \in Blocks : bpc[b] = "failed" /\ FilesOf(b) = {}}

\* the step by which the first run_blockwise is left although a block is
\* missing: when pre holds, it is the merge of the files that exist, after which
\* every block awaits its relabelling
MergeDespiteMissing(pre) ==
  (phase = "phase1" /\ phase' # "phase1" /\ Missing # {} /\ pre) =>
    /\ phase' = "phase3"
    /\ mapping' = MinMapping(tmpdir)
    /\ \A b \in Blocks : bpc'[b] = "pending"

\* phase 3 ends only when every block has been relabelled
AllRelabeled == phase = "done" => \A b \in Blocks : bpc[b] = "relabeled"

\* C14 as stated: whenever a block has failed for good and left no file, no
\* error is raised, the merge is computed from the files that exist and phase 3
\* runs on every block
C14_MissingNeverDetected == [] AllRelabeled /\ [][MergeDespiteMissing(TRUE)]_vars

\* C14, amended: the same when at least one block has left a file
C14_MissingNotDetected == [] AllRelabeled /\ [][MergeDespiteMissing(tmpdir # {})]_vars

\* a finished run in which the voxels of one blob on the two sides of the block
\* boundary hold different nonzero labels
C14_Witness ==
  /\ phase = "done"
  /\ \E p \in Crossings :
       array_out[p[1]] # 0 /\ array_out[p[2]] # 0 /\ array_out[p[1]] # array_out[p[2]]

\* ------------------------------------------------------------------------
\* The width of the labels
\* ------------------------------------------------------------------------

\* the blocks whose labels have been bumped
Bumped == {u \in UnitBlocks : bpc[u] = "bumped"}

\* the nonzero labels that block u holds after lines 103-104
Stored(u) == {components[u][x] : x \in unit_read_roi[u]} \ {0}

\* the local labels of block u (lines 95-98)
Locals(u) == {unit_label(array_in, u)[x] : x \in unit_read_roi[u]} \ {0}

\* C15: lines 36-57 hold no test of the width, so no run is rejected, also
\* this one in which (max block id + 1) x capacity = 27 x 27 exceeds 2^8; in
\* every run the stored labels of two blocks are disjoint, two local labels of
\* one block are stored as two labels, and no foreground voxel is stored as 0
C15_NoSilentOverflow ==
  /\ \A u, v \in Bumped : u # v => Stored(u) \cap Stored(v) = {}
  /\ \A u \in Bumped :
       /\ Cardinality(Stored(u)) = Cardinality(Locals(u))
       /\ \A x \in unit_read_roi[u] : array_in[x] # 0 => components[u][x] # 0

\* ------------------------------------------------------------------------
\* A volume with one axis: length 8, block_size 4, blocks 0 and 1
\* ------------------------------------------------------------------------

\* array_in.roi and block_size, in voxels
line_shape == << 8 >>

line_block_size == << 4 >>

\* labels.ndim
line_ndim == Len(line_shape)

LineVoxels == 0..(line_shape[1] - 1)

LineBlocks == 0..((line_shape[1] \div line_block_size[1]) - 1)

line_write_roi ==
  [b \in LineBlocks |->
     {i \in LineVoxels : b * line_block_size[1] <= i /\ i < (b + 1) * line_block_size[1]}]

\* block.read_roi, the part inside the volume
line_read_roi ==
  [b \in LineBlocks |->
     {i \in LineVoxels : b * line_block_size[1] - 1 <= i /\ i <= (b + 1) * line_block_size[1]}]

\* num_voxels_in_block (line 42)
line_capacity == line_block_size[1] + 2

\* skimage.measure.label of an array with one axis: the runs of equal nonzero
\* value are numbered 1, 2, ... from the left
line_label(labels, R) ==
  LET starts == {y \in R : labels[y] # 0 /\ (y - 1 \notin R \/ labels[y - 1] # labels[y])}
  IN  [x \in R |->
         IF labels[x] = 0 THEN 0 ELSE Cardinality({y \in starts : y <= x})]

\* lines 95-104 for block b
line_components(in, b) ==
  LET labels == [x \in line_read_roi[b] |-> in[x]]
      comps == line_label(labels, line_read_roi[b])
  IN  [x \in line_read_roi[b] |->
         IF labels[x] = 0 THEN 0 ELSE comps[x] + block_id(b) * line_capacity]

\* the number of slices in the index of line 112, components[1:-1, 1:-1, 1:-1],
\* and of axes walked by line 119, range(3)
num_indexed_axes == Cardinality(Dims)

LineInputs == [LineVoxels -> {0, 1}]

InitLine ==
  /\ array_in \in LineInputs
  /\ num_workers \in 1..MaxWorkers
  /\ array_out = [x \in LineVoxels |-> 0]
  /\ phase = "phase1"
  /\ bpc = [b \in LineBlocks |-> "idle"]
  /\ components = [b \in LineBlocks |-> NoArray]
  /\ tmpdir = {}
  /\ mapping = {}
  /\ a = [b \in LineBlocks |-> NoArray]
  /\ retries = 0

\* find_components_in_block, lines 95-104
LineLabel(b) ==
  /\ phase = "phase1"
  /\ bpc[b] = "idle"
  /\ Cardinality({c \in LineBlocks : bpc[c] = "labelled"}) < num_workers
  /\ components' = [components EXCEPT ![b] = line_components(array_in, b)]
  /\ bpc' = [bpc EXCEPT ![b] = "labelled"]
  /\ UNCHANGED << array_in, num_workers, array_out, phase, tmpdir, mapping, a, retries >>

\* line 112: the index holds more slices than components has axes, numpy
\* raises IndexError before anything is written and the block fails
LineCommitRaises(b) ==
  /\ phase = "phase1"
  /\ bpc[b] = "labelled"
  /\ num_indexed_axes > line_ndim
  /\ bpc' = [bpc EXCEPT ![b] = "failed"]
  /\ components' = [components EXCEPT ![b] = NoArray]
  /\ UNCHANGED << array_in, num_workers, array_out, phase, tmpdir, mapping, a, retries >>

\* this volume has two blocks, 0 and 1, like the volume with three axes, so
\* the blocks that MergeRaises waits for are the blocks of the line
NextLine ==
  \/ \E b \in LineBlocks : LineLabel(b)
  \/ \E b \in LineBlocks : LineCommitRaises(b)
  \/ MergeRaises

SpecLine == InitLine /\ [][NextLine]_vars

\* the blocks whose process function has ended
LineEnded == {b \in LineBlocks : bpc[b] \notin {"idle", "labelled"}}

\* C16: also with one axis, a block that has ended has written its labels,
\* without the halo, into its write region, and once both blocks have ended a
\* run of foreground across the block boundary is recorded as an edge between
\* the two labels it was given
C16_AnyDimensionality ==
  /\ \A b \in LineEnded :
       \A x \in line_write_roi[b] : array_out[x] = line_components(array_in, b)[x]
  /\ LineEnded = LineBlocks =>
       \A x \in line_write_roi[0] :
         (x + 1 \in line_write_roi[1] /\ array_in[x] # 0 /\ array_in[x] = array_in[x + 1]) =>
           \E f \in tmpdir : \E e \in Range(f.edges) :
             {e[1], e[2]} = {array_out[x], array_out[x + 1]}

\* ------------------------------------------------------------------------
\* The partition of the voxels by output label
\* ------------------------------------------------------------------------

\* x and y are both background, or joined by a face-adjacent path of voxels of
\* one nonzero input value
SameComponent(x, y) ==
  \/ array_in[x] = 0 /\ array_in[y] = 0
  \/ array_in[x] # 0 /\ y \in Blob_of(x)

\* C17: after phase 3, whatever the order and interleaving of the steps of
\* phase 1, two voxels hold the same output label exactly when they are both
\* background or joined by such a path
C17_PartitionDeterminism ==
  phase = "done" =>
    \A x, y \in Voxels : (array_out[x] = array_out[y]) <=> SameComponent(x, y)

\* a finished run whose label values differ from those of the sequential run,
\* with a blob across the block boundary
C17_Witness ==
  /\ phase = "done"
  /\ Crossings # {}
  /\ array_out # SequentialOutput

\* ------------------------------------------------------------------------
\* Re-execution of a block in phase 1
\* ------------------------------------------------------------------------

\* a step that is lines 95-112 of block b
IsCommit(b) == phase = "phase1" /\ bpc[b] = "idle" /\ bpc'[b] = "committed"

\* in phase 1 a destination voxel that holds a label keeps it; a block that
\* writes again over labels of an earlier execution writes the same labels; a
\* block that saves again saves at least the edges of its earlier file
C18_Step ==
  /\ (phase = "phase1" /\ phase' = "phase1") =>
       \A x \in Voxels : array_out[x] # 0 => array_out'[x] = array_out[x]
  /\ \A b \in Blocks :
       /\ (IsCommit(b) /\ \E x \in write_roi[b] : array_out[x] # 0) =>
            array_out' = array_out
       /\ IsReRead(b) => EdgesOf(tmpdir, b) \subseteq EdgesOf(tmpdir', b)

\* C18: a block executed again before the merge writes the labels of its
\* earlier execution into its write region and saves a superset of the edges
\* it had saved, since in phase 1 a destination voxel only changes from 0 to
\* its provisional label
C18_RetrySafe == [][C18_Step]_vars

\* a block executed again has written its labels a second time and is about to
\* save more edges than its earlier file holds
C18_Witness ==
  /\ phase = "phase1"
  /\ retries > 0
  /\ \E b \in Blocks :
       /\ bpc[b] = "committed"
       /\ FilesOf(b) # {}
       /\ \E e \in Range(block_edges(components[b], to_ndarray(array_out, b), b)) :
            e \notin EdgesOf(tmpdir, b)

\* ------------------------------------------------------------------------
\* Re-execution of a block in phase 3
\* ------------------------------------------------------------------------

\* every new value of the mapping is mapped to itself or is no old value
C19_Canonical == \A p \in mapping : Mapped(p[2]) = p[2]

\* in phase 3 every voxel holds its provisional label or the mapped value of
\* it, the latter in the blocks that have been relabelled, and at the end
C19_Final ==
  phase \in {"phase3", "done"} =>
    LET prov == [b \in Blocks |-> local_components(array_in, b)]
    IN  \A x \in Voxels :
          /\ array_out[x] \in {prov[Owner(x)][x], Mapped(prov[Owner(x)][x])}
          /\ (bpc[Owner(x)] = "relabeled" \/ phase = "done") =>
               array_out[x] = Mapped(prov[Owner(x)][x])

\* the write of a block whose voxels hold the mapped values of their
\* provisional labels already, from an earlier relabel step, changes no voxel
C19_Step ==
  \A b \in Blocks :
    (bpc[b] = "reading" /\ bpc'[b] = "relabeled"
       /\ LET prov == local_components(array_in, b)
          IN  \A x \in write_roi[b] : array_out[x] = Mapped(prov[x])) =>
      array_out' = array_out

\* C19: every canonical label is mapped to itself or is absent from the
\* mapping, so a relabel step applied again to a block changes no voxel and the
\* final array after any number of relabel steps per block is the array after
\* one relabel step per block
C19_RelabelIdempotent == [] (C19_Canonical /\ C19_Final) /\ [][C19_Step]_vars

\* a block whose labels the relabel step had changed has been read again, and
\* the array read and replaced equals what the block holds
C19_Witness ==
  /\ phase = "phase3"
  /\ \E b \in Blocks :
       /\ bpc[b] = "reading"
       /\ a[b] = write_ndarray(array_out, b)
       /\ \E x \in write_roi[b] : array_out[x] # local_components(array_in, b)[x]

====
